---- MODULE Spec2Model ----
(***************************************************************************)
(* GlobaLeaks ORM models (backend/globaleaks/models/__init__.py).          *)
(*                                                                         *)
(* The module models the generic Model engine (Model.update, Model.dict,   *)
(* Model.new), the FieldAttr override of update, the derived state of     *)
(* InternalTip (wb_revoke_access_date, is_wb_access_revoked), and the rows *)
(* of WhistleblowerTip and ReceiverTip as db_forge_obj makes them.         *)
(*                                                                         *)
(* Python values are tagged records, so that a text, a number, a boolean,  *)
(* None and a dict stay distinct.  A dict is an object on the heap: a      *)
(* Storm JSON column keeps the object it was given, by reference, and      *)
(* dict.update changes that object in place.                               *)
(*                                                                         *)
(* Of each entity kind the model keeps a few columns, at least one of      *)
(* every bucket and validator the kind declares, in the declared order.    *)
(***************************************************************************)
EXTENDS Integers, Sequences, FiniteSets, TLC

VARIABLES
    obj,        \* the entity under update: [kind, attrs]
    heap,       \* Addr -> dict object (a function from language codes to text)
    ncalls,     \* calls made on the entity so far
    last,       \* the call just made: operation, argument, state before, outcome
    prev,       \* the call made before it on a FieldAttr
    itips,      \* InternalTip rows of the store: id -> [wb_last_access]
    wbtips,     \* WhistleblowerTip rows of the store: id -> [internaltip_id]
    rtips,      \* ReceiverTip rows of the store: id -> [internaltip_id, receiver_id]
    ttl,        \* GLSettings.memory_copy.wbtip_timetolive, in days
    now         \* the clock of datetime_now(), in days

vars == <<obj, heap, ncalls, last, prev, itips, wbtips, rtips, ttl, now>>

----------------------------------------------------------------------------
(* Bounds *)

\* An input map names at most MaxKeys fields.
MaxKeys == 2
\* Calls made on one entity, its construction included.
MaxCalls == 2
\* Calls made on one FieldAttr, its construction included.
MaxAttrCalls == 3
\* Internal tips and whistleblower-tip rows the store can hold.
MaxTips == 2
MaxRows == 3
\* Receivers a receiver-tip row can name.
MaxReceivers == 2
\* The clock and the retention window, in days.
MaxDay == 2
MaxTtl == 2

----------------------------------------------------------------------------
(* Python values *)

None == [t |-> "none"]
Str(s) == [t |-> "str", s |-> s]
Num(i) == [t |-> "int", i |-> i]
Bool(b) == [t |-> "bool", b |-> b]
\* An attribute the instance does not have yet (Counter names 'number' in
\* int_keys and declares no such column: update makes it a plain attribute).
Unset == [t |-> "unset"]
\* A reference to the dict object at address a of the heap.
Ref(a) == [t |-> "dict", a |-> a]

\* Language codes, in the order a dict is printed.
Langs == <<"en", "it", "fr">>
Lang == {Langs[i] : i \in 1..Len(Langs)}

\* A text longer than Node.maximum_namesize and one longer than
\* Node.maximum_textsize; every other text of the model is shorter than both.
OverName == "<129 chars>"
OverText == "<4097 chars>"

maximum_namesize == 128
maximum_textsize == 4096

TextLength(s) ==
    CASE s = OverName -> maximum_namesize + 1
      [] s = OverText -> maximum_textsize + 1
      [] OTHER -> 1

EmptyDict == << >>

\* dict.update: the entries of n applied on top of m, key by key.
DictMerge(m, n) ==
    [l \in DOMAIN m \cup DOMAIN n |-> IF l \in DOMAIN n THEN n[l] ELSE m[l]]

RECURSIVE ReprItems(_, _, _)
ReprItems(d, i, first) ==
    IF i > Len(Langs) THEN ""
    ELSE IF Langs[i] \in DOMAIN d
         THEN (IF first THEN "" ELSE ", ")
              \o "u'" \o Langs[i] \o "': u'" \o d[Langs[i]] \o "'"
              \o ReprItems(d, i + 1, FALSE)
         ELSE ReprItems(d, i + 1, first)

\* unicode(d) of a dict d: its printed form.
ReprDict(d) == "{" \o ReprItems(d, 1, TRUE) \o "}"

\* unicode(v)
ToUnicode(v, h) ==
    CASE v.t = "str" -> v
      [] v.t = "int" -> Str(ToString(v.i))
      [] v.t = "bool" -> Str(IF v.b THEN "True" ELSE "False")
      [] v.t = "dict" -> Str(ReprDict(h[v.a]))
      [] v.t = "none" -> Str("None")

\* The integers a text of the model can spell.
Numerals == -1..15

\* int(v): [exc, v]
ToInt(v) ==
    CASE v.t = "int" -> [exc |-> "ok", v |-> v]
      [] v.t = "bool" -> [exc |-> "ok", v |-> Num(IF v.b THEN 1 ELSE 0)]
      [] v.t = "str" ->
            IF \E i \in Numerals : ToString(i) = v.s
            THEN [exc |-> "ok", v |-> Num(CHOOSE i \in Numerals : ToString(i) = v.s)]
            ELSE [exc |-> "ValueError", v |-> None]
      [] OTHER -> [exc |-> "TypeError", v |-> None]

\* bool(v): Python's truth value
Truthy(v, h) ==
    CASE v.t = "str" -> v.s # ""
      [] v.t = "int" -> v.i # 0
      [] v.t = "bool" -> v.b
      [] v.t = "dict" -> DOMAIN h[v.a] # {}
      [] v.t = "none" -> FALSE

\* A slip: the tokens compared without their case, and "no" and "0" read
\* as false.
ToBoolLoose(v, h) ==
    IF v \in {Str("true"), Str("True")} THEN Bool(TRUE)
    ELSE IF v \in {Str("false"), Str("False"), Str("no"), Str("0")} THEN Bool(FALSE)
    ELSE Bool(Truthy(v, h))

\* The boolean bucket's coercion (Model.update, the bool_keys loop).
ToBool(v, h) ==
    IF v = Str("true") THEN Bool(TRUE)
    ELSE IF v = Str("false") THEN Bool(FALSE)
    ELSE Bool(Truthy(v, h))

----------------------------------------------------------------------------
(* Attribute schema *)

Kinds == {"User", "Context", "ReceiverTip", "CustomTexts", "Counter"}

unicode_keys(kind) ==
    CASE kind = "User" -> <<"username", "name">>
      [] kind = "ReceiverTip" -> <<"label">>
      [] kind = "CustomTexts" -> <<"lang">>
      [] kind = "Counter" -> <<"key">>
      [] OTHER -> << >>

int_keys(kind) ==
    CASE kind = "Context" -> <<"tip_timetolive">>
      [] kind = "Counter" -> <<"number">>
      [] OTHER -> << >>

datetime_keys(kind) == << >>

bool_keys(kind) ==
    CASE kind = "ReceiverTip" -> <<"enable_notifications">>
      [] OTHER -> << >>

localized_keys(kind) ==
    CASE kind = "User" -> <<"description">>
      [] kind = "Context" -> <<"name", "description">>
      [] OTHER -> << >>

json_keys(kind) ==
    CASE kind = "CustomTexts" -> <<"texts">>
      [] OTHER -> << >>

Range(seq) == {seq[i] : i \in 1..Len(seq)}

\* The fields Model.update can reach for a kind.
BucketKeys(kind) ==
    Range(unicode_keys(kind)) \cup Range(int_keys(kind))
    \cup Range(datetime_keys(kind)) \cup Range(bool_keys(kind))
    \cup Range(localized_keys(kind)) \cup Range(json_keys(kind))

\* The columns of a kind (and the attribute update gives a Counter), with
\* the value a new instance holds.
Defaults(kind) ==
    CASE kind = "User" ->
            [id |-> Str("uuid4"), username |-> None, password |-> None,
             name |-> None, description |-> None]
      [] kind = "Context" ->
            [id |-> Str("uuid4"), tip_timetolive |-> Num(15), name |-> None,
             description |-> None]
      [] kind = "ReceiverTip" ->
            [id |-> Str("uuid4"), label |-> Str(""),
             enable_notifications |-> Bool(TRUE)]
      [] kind = "CustomTexts" ->
            [lang |-> None, texts |-> None]
      [] kind = "Counter" ->
            [key |-> None, counter |-> Num(1), number |-> Unset]

Columns(kind) == DOMAIN Defaults(kind)

\* The validator a column declares.
ValidatorOf(kind, k) ==
    CASE kind = "User" /\ k \in {"username", "name"} -> "shorttext_v"
      [] kind = "User" /\ k = "description" -> "longlocal_v"
      [] kind = "Context" /\ k = "tip_timetolive" -> "natnum_v"
      [] kind = "Context" /\ k = "name" -> "shortlocal_v"
      [] kind = "Context" /\ k = "description" -> "longlocal_v"
      [] kind = "CustomTexts" /\ k = "lang" -> "shorttext_v"
      [] kind = "Counter" /\ k = "key" -> "shorttext_v"
      [] OTHER -> "none"

\* The public field set of a kind (Model._public_attrs).
public_attrs(kind) ==
    CASE kind = "User" -> Columns(kind) \ {"password"}
      [] kind = "Counter" -> {"key", "counter"}
      [] OTHER -> Columns(kind)

----------------------------------------------------------------------------
(* Validators *)

shorttext_v(v, h) == v.t = "str" /\ TextLength(v.s) <= maximum_namesize

longtext_v(v, h) == v.t = "str" /\ TextLength(v.s) <= maximum_textsize

shortlocal_v(v, h) ==
    v.t = "dict" /\ \A l \in DOMAIN h[v.a] : TextLength(h[v.a][l]) <= maximum_namesize

longlocal_v(v, h) ==
    v.t = "dict" /\ \A l \in DOMAIN h[v.a] : TextLength(h[v.a][l]) <= maximum_textsize

natnum_v(v, h) == v.t = "int" /\ v.i >= 0

Accepts(validator, v, h) ==
    CASE validator = "shorttext_v" -> shorttext_v(v, h)
      [] validator = "longtext_v" -> longtext_v(v, h)
      [] validator = "shortlocal_v" -> shortlocal_v(v, h)
      [] validator = "longlocal_v" -> longlocal_v(v, h)
      [] validator = "natnum_v" -> natnum_v(v, h)
      [] OTHER -> TRUE

----------------------------------------------------------------------------
(* Model.update *)

\* The state of a call in progress: the entity's attributes, the heap and
\* the exception raised so far ("ok": none).
Running(attrs, h) == [attrs |-> attrs, heap |-> h, exc |-> "ok"]

\* setattr(self, k, v): the column's validator runs before the value is kept.
SetAttr(kind, st, k, v) ==
    IF Accepts(ValidatorOf(kind, k), v, st.heap)
    THEN [st EXCEPT !.attrs[k] = v]
    ELSE [st EXCEPT !.exc = "ValidationError"]

\* A slip: the None test left out.
PresentInMap(values, k) == k \in DOMAIN values

\* k in values and values[k] is not None
Present(values, k) == k \in DOMAIN values /\ values[k] # None

UnicodeStep(kind, st, k, values) ==
    SetAttr(kind, st, k, ToUnicode(values[k], st.heap))

IntStep(kind, st, k, values) ==
    LET r == ToInt(values[k])
    IN  IF r.exc = "ok" THEN SetAttr(kind, st, k, r.v)
        ELSE [st EXCEPT !.exc = r.exc]

DatetimeStep(kind, st, k, values) == SetAttr(kind, st, k, values[k])

BoolStep(kind, st, k, values) ==
    SetAttr(kind, st, k, ToBool(values[k], st.heap))

\* previous.update(value) on the dict at address a: [exc, heap].  A dict is
\* merged in place; the empty text has no items to add; any other text, and
\* anything that cannot be iterated, is refused.
DictUpdate(h, a, value) ==
    CASE value.t = "dict" ->
            [exc |-> "ok", heap |-> [h EXCEPT ![a] = DictMerge(@, h[value.a])]]
      [] value = Str("") -> [exc |-> "ok", heap |-> h]
      [] value.t = "str" -> [exc |-> "ValueError", heap |-> h]
      [] OTHER -> [exc |-> "TypeError", heap |-> h]

\* A slip: the incoming dict replaces the one the field holds.
LocalizedStepReplace(kind, st, k, values) == SetAttr(kind, st, k, values[k])

\* A slip: a field that holds an empty dict keeps it, the incoming dict is
\* dropped.
LocalizedStepKeep(kind, st, k, values) ==
    LET value == values[k]
        previous == st.attrs[k]
        merged == DictUpdate(st.heap, previous.a, value)
    IN  IF previous.t = "dict" /\ Truthy(previous, st.heap)
        THEN IF merged.exc = "ok"
             THEN SetAttr(kind, [st EXCEPT !.heap = merged.heap], k, previous)
             ELSE [st EXCEPT !.exc = merged.exc]
        ELSE SetAttr(kind, st, k, IF previous.t = "dict" THEN previous ELSE value)

\* previous.update(value), then setattr(self, k, previous); or
\* setattr(self, k, value) when the field holds nothing.
LocalizedStep(kind, st, k, values) ==
    LET value == values[k]
        previous == st.attrs[k]
        merged == DictUpdate(st.heap, previous.a, value)
    IN  IF previous.t = "dict" /\ Truthy(previous, st.heap)
        THEN IF merged.exc = "ok"
             THEN SetAttr(kind, [st EXCEPT !.heap = merged.heap], k, previous)
             ELSE [st EXCEPT !.exc = merged.exc]
        ELSE SetAttr(kind, st, k, value)

JsonStep(kind, st, k, values) == SetAttr(kind, st, k, values[k])

BucketStep(bucket, kind, st, k, values) ==
    CASE bucket = "unicode" -> UnicodeStep(kind, st, k, values)
      [] bucket = "int" -> IntStep(kind, st, k, values)
      [] bucket = "datetime" -> DatetimeStep(kind, st, k, values)
      [] bucket = "bool" -> BoolStep(kind, st, k, values)
      [] bucket = "localized" -> LocalizedStep(kind, st, k, values)
      [] bucket = "json" -> JsonStep(kind, st, k, values)

\* for k in <bucket>: if k in values and values[k] is not None: ...
\* An exception ends the call where it is raised.
RECURSIVE Loop(_, _, _, _, _)
Loop(bucket, kind, st, ks, values) ==
    IF ks = << >> \/ st.exc # "ok" THEN st
    ELSE Loop(bucket, kind,
              IF Present(values, Head(ks))
              THEN BucketStep(bucket, kind, st, Head(ks), values)
              ELSE st,
              Tail(ks), values)

\* Model.update(values): the buckets in the order of the code.
Update(kind, attrs, h, arg) ==
    IF arg.none THEN Running(attrs, h)
    ELSE LET s1 == Loop("unicode", kind, Running(attrs, h), unicode_keys(kind), arg.map)
             s2 == Loop("int", kind, s1, int_keys(kind), arg.map)
             s3 == Loop("datetime", kind, s2, datetime_keys(kind), arg.map)
             s4 == Loop("bool", kind, s3, bool_keys(kind), arg.map)
             s5 == Loop("localized", kind, s4, localized_keys(kind), arg.map)
         IN  Loop("json", kind, s5, json_keys(kind), arg.map)

----------------------------------------------------------------------------
(* Model.dict *)

\* A slip: with no keys, every column is taken, public or not.
dictAllColumns(kind, attrs, keys) ==
    LET wanted == IF keys = {} THEN Columns(kind) ELSE keys
    IN  [exc |-> "ok", ret |-> [key \in wanted \cap Columns(kind) |-> attrs[key]],
         named |-> {}]

\* A slip: the keys that are not public are dropped, not refused.
dictLenient(kind, attrs, keys) ==
    LET wanted == IF keys = {} THEN public_attrs(kind) ELSE keys
    IN  [exc |-> "ok",
         ret |-> [key \in wanted \cap public_attrs(kind) |-> attrs[key]],
         named |-> {}]

\* dict(*keys): [exc, ret]; ret maps each key to getattr(self, key).
dict(kind, attrs, keys) ==
    LET wanted == IF keys = {} THEN public_attrs(kind) ELSE keys
        not_allowed_keys == wanted \ public_attrs(kind)
    IN  IF not_allowed_keys # {}
        THEN [exc |-> "KeyError", ret |-> None, named |-> not_allowed_keys]
        ELSE [exc |-> "ok",
              ret |-> [key \in wanted \cap public_attrs(kind) |-> attrs[key]],
              named |-> {}]

----------------------------------------------------------------------------
(* The heap *)

\* The columns that can hold a dict, in the order update reaches them.
DictKeys(kind) ==
    IF kind = "FieldAttr" THEN <<"value">>
    ELSE localized_keys(kind) \o json_keys(kind)

\* The most dict columns a kind has.
NHome == CHOOSE n \in 0..Cardinality(Kinds) * 4 :
            /\ \A kind \in Kinds : Len(DictKeys(kind)) <= n
            /\ \E kind \in Kinds : Len(DictKeys(kind)) = n

\* Addresses are names of dict objects.  Between calls the dict a column
\* holds sits at the column's own address (its place in DictKeys); a dict
\* the caller builds for a call arrives NHome above the address of the
\* column it is passed for.
Addr == 1..(NHome + NHome)

IndexOf(seq, k) == CHOOSE i \in 1..Len(seq) : seq[i] = k

ArgAddr(kind, k) == NHome + IndexOf(DictKeys(kind), k)

EmptyHeap == [a \in Addr |-> EmptyDict]

\* Reference counting: a dict no column holds any more is gone.  The dicts
\* left are renamed to the address of the first column that holds them.
Collect(kind, attrs, h) ==
    LET order == DictKeys(kind)
        holds(i, a) == attrs[order[i]] = Ref(a)
        holder(a) == CHOOSE i \in 1..Len(order) :
                        holds(i, a) /\ \A j \in 1..(i - 1) : ~holds(j, a)
    IN  [attrs |-> [k \in DOMAIN attrs |->
                      IF attrs[k].t = "dict" THEN Ref(holder(attrs[k].a))
                      ELSE attrs[k]],
         heap |-> [i \in Addr |->
                      IF i <= Len(order) /\ attrs[order[i]].t = "dict"
                         /\ holder(attrs[order[i]].a) = i
                      THEN h[attrs[order[i]].a]
                      ELSE EmptyDict]]

----------------------------------------------------------------------------
(* Callers: the arguments the model passes to update, new and dict *)

Dicts(langs, texts) == UNION {[S -> texts] : S \in SUBSET langs}

\* The dicts a caller passes: the dicts of short texts in two languages
\* (one text for the second), and one that no validator of local texts
\* accepts.
InputDicts ==
    {d \in Dicts({"en", "it"}, {"a", "b"}) : "it" \in DOMAIN d => d["it"] = "b"}
    \cup {[l \in {"en"} |-> OverText]}

\* A dict the caller builds for this call.
Lit(d) == [t |-> "newdict", d |-> d]

BucketOf(kind, k) ==
    CASE k \in Range(unicode_keys(kind)) -> "unicode"
      [] k \in Range(int_keys(kind)) -> "int"
      [] k \in Range(datetime_keys(kind)) -> "datetime"
      [] k \in Range(bool_keys(kind)) -> "bool"
      [] k \in Range(localized_keys(kind)) -> "localized"
      [] k \in Range(json_keys(kind)) -> "json"
      [] OTHER -> "none"

RawValues(kind, k) ==
    CASE BucketOf(kind, k) = "unicode" -> {None, Str("a"), Str(OverName), Num(1)}
      [] BucketOf(kind, k) = "int" -> {None, Num(-1), Str("7"), Str("x")}
      [] BucketOf(kind, k) = "bool" ->
            {None, Str("true"), Str("false"), Str("no"), Str("False"), Str("0"),
             Str(""), Num(0), Num(1), Bool(TRUE), Bool(FALSE)}
      [] BucketOf(kind, k) = "localized" -> {None} \cup {Lit(d) : d \in InputDicts}
      [] BucketOf(kind, k) = "json" -> {None, Str("t"), Lit([l \in {"en"} |-> "a"])}
      [] OTHER -> {Str("b")}

\* The names a caller may put in an input map or ask dict for.
KeyNames(kind) == Columns(kind) \cup {"unknown"}

\* The maps from the keys S to their raw values.
RECURSIVE MapsOver(_, _)
MapsOver(kind, S) ==
    IF S = {} THEN {<< >>}
    ELSE LET k == CHOOSE j \in S : TRUE
         IN  {(k :> v) @@ m : v \in RawValues(kind, k), m \in MapsOver(kind, S \ {k})}

\* The argument of update: None, or a map from field names to values,
\* with the dicts the caller built for it.
NoValues == [none |-> TRUE, map |-> << >>, dicts |-> EmptyHeap]

Values(kind, raw) ==
    [none |-> FALSE,
     map |-> [k \in DOMAIN raw |->
                IF raw[k].t = "newdict" THEN Ref(ArgAddr(kind, k)) ELSE raw[k]],
     dicts |-> [a \in Addr |->
                IF \E k \in DOMAIN raw : raw[k].t = "newdict" /\ ArgAddr(kind, k) = a
                THEN raw[CHOOSE k \in DOMAIN raw :
                            raw[k].t = "newdict" /\ ArgAddr(kind, k) = a].d
                ELSE EmptyDict]]

\* The arguments of update and new, by kind: None and every input map of
\* at most MaxKeys names.  (@@ makes the table once, not once for every use.)
Arguments ==
    [kind \in Kinds |->
        {NoValues} \cup
        {Values(kind, m) : m \in UNION {MapsOver(kind, S) :
            S \in {T \in SUBSET KeyNames(kind) : Cardinality(T) <= MaxKeys}}}]
    @@ << >>

\* The arguments of dict, by kind.
KeySets ==
    [kind \in Kinds |-> {T \in SUBSET KeyNames(kind) : Cardinality(T) <= MaxKeys}]
    @@ << >>

\* The heap of a call: the dicts of the rows and those of the argument.
WithArg(h, arg) == [a \in Addr |-> IF a <= NHome THEN h[a] ELSE arg.dicts[a]]

----------------------------------------------------------------------------
(* The generic engine on one entity *)

NoCall ==
    [op |-> "none", arg |-> NoValues, keys |-> {}, kind |-> "", tip |-> 0,
     pre |-> << >>, preheap |-> << >>, exc |-> "ok", ret |-> None, named |-> {}]

NoObject == [kind |-> "", attrs |-> << >>]

\* wbtip_timetolive as the node is made, in days.
wbtip_timetolive == 90

\* No tip yet, on day 0.
TipsIdle ==
    /\ itips = << >>
    /\ wbtips = << >>
    /\ rtips = << >>
    /\ ttl = wbtip_timetolive
    /\ now = 0

\* No instance yet.
Init ==
    /\ obj = NoObject
    /\ heap = EmptyHeap
    /\ ncalls = 0
    /\ last = NoCall
    /\ prev = NoCall
    /\ TipsIdle

\* cls.new(store, values): obj = cls(values); store.add(obj).  When the
\* constructor raises, no object is made.
NewCall(kind, arg) ==
    /\ last = NoCall
    /\ obj = NoObject
    /\ LET st == Update(kind, Defaults(kind), WithArg(heap, arg), arg)
           kept == Collect(kind, st.attrs, st.heap)
       IN  /\ obj' = IF st.exc = "ok" THEN [kind |-> kind, attrs |-> kept.attrs]
                     ELSE NoObject
           /\ heap' = IF st.exc = "ok" THEN kept.heap ELSE heap
           /\ ncalls' = IF st.exc = "ok" THEN 1 ELSE 0
           /\ last' = [NoCall EXCEPT !.op = "new", !.arg = arg, !.kind = kind,
                                     !.pre = Defaults(kind),
                                     !.preheap = WithArg(heap, arg),
                                     !.exc = st.exc]
    /\ UNCHANGED <<rtips, prev, itips, wbtips, ttl, now>>

\* obj.update(values)
UpdateCall(arg) ==
    /\ last = NoCall
    /\ obj # NoObject
    /\ ncalls < MaxCalls
    /\ LET st == Update(obj.kind, obj.attrs, WithArg(heap, arg), arg)
           kept == Collect(obj.kind, st.attrs, st.heap)
       IN  /\ obj' = [obj EXCEPT !.attrs = kept.attrs]
           /\ heap' = kept.heap
           /\ last' = [NoCall EXCEPT !.op = "update", !.arg = arg,
                                     !.kind = obj.kind, !.pre = obj.attrs,
                                     !.preheap = WithArg(heap, arg),
                                     !.exc = st.exc]
    /\ ncalls' = ncalls + 1
    /\ UNCHANGED <<rtips, prev, itips, wbtips, ttl, now>>

\* obj.dict(*keys)
DictCall(keys) ==
    /\ last = NoCall
    /\ obj # NoObject
    /\ ncalls < MaxCalls
    /\ LET r == dict(obj.kind, obj.attrs, keys)
       IN  last' = [NoCall EXCEPT !.op = "dict", !.keys = keys, !.kind = obj.kind,
                                 !.pre = obj.attrs, !.preheap = heap,
                                 !.exc = r.exc, !.ret = r.ret, !.named = r.named]
    /\ ncalls' = ncalls + 1
    /\ UNCHANGED <<rtips, obj, heap, prev, itips, wbtips, ttl, now>>

\* The call is over: the caller has seen its outcome.
Return ==
    /\ last # NoCall
    /\ last' = NoCall
    /\ UNCHANGED <<rtips, obj, heap, ncalls, prev, itips, wbtips, ttl, now>>

Idle == last = NoCall

Next ==
    \/ Idle /\ \E kind \in Kinds : \E arg \in Arguments[kind] : NewCall(kind, arg)
    \/ Idle /\ obj # NoObject /\ \E arg \in Arguments[obj.kind] : UpdateCall(arg)
    \/ Idle /\ obj # NoObject /\ \E keys \in KeySets[obj.kind] : DictCall(keys)
    \/ Return

Spec == Init /\ [][Next]_vars

----------------------------------------------------------------------------
(* A caller that passes one dict for two fields *)

\* {'name': d, 'description': d}: both names of the input map refer to the
\* one dict object d.
SharedValues(d) ==
    [none |-> FALSE,
     map |-> [k \in {"name", "description"} |-> Ref(ArgAddr("Context", "name"))],
     dicts |-> [a \in Addr |->
                IF a = ArgAddr("Context", "name") THEN d ELSE EmptyDict]]

\* The arguments of update and new on a Context: None, one dict for both
\* localized fields, or a dict for one of them.
SharingArguments ==
    {NoValues}
    \cup {SharedValues(d) : d \in InputDicts}
    \cup {Values("Context", k :> Lit(d)) :
            k \in {"name", "description"}, d \in InputDicts}

NextSharing ==
    \/ \E arg \in SharingArguments : NewCall("Context", arg)
    \/ \E arg \in SharingArguments : UpdateCall(arg)
    \/ Return

SpecSharing == Init /\ [][NextSharing]_vars

----------------------------------------------------------------------------
(* FieldAttr: the update of its own *)

AttrDefaults ==
    [id |-> Str("uuid"), field_id |-> None, name |-> None, type |-> None,
     value |-> None]

\* setattr(self, k, unicode(values[k])): a missing key raises KeyError.
AttrText(st, k, values) ==
    IF st.exc # "ok" THEN st
    ELSE IF k \notin DOMAIN values THEN [st EXCEPT !.exc = "KeyError"]
    ELSE SetAttr("FieldAttr", st, k, ToUnicode(values[k], st.heap))

\* The branch of type 'localized'.
AttrLocalized(st, values) ==
    IF st.exc # "ok" THEN st
    ELSE IF "value" \notin DOMAIN values THEN [st EXCEPT !.exc = "KeyError"]
    ELSE LET value == values["value"]
             previous == st.attrs["value"]
             merged == DictUpdate(st.heap, previous.a, value)
         IN  IF previous.t = "dict" /\ Truthy(previous, st.heap)
             THEN IF merged.exc = "ok"
                  THEN SetAttr("FieldAttr", [st EXCEPT !.heap = merged.heap],
                               "value", previous)
                  ELSE [st EXCEPT !.exc = merged.exc]
             ELSE SetAttr("FieldAttr", st, "value", value)

\* A slip: the value of a localized attribute is stored as a text too.
AttrUpdateAllText(attrs, h, arg) ==
    IF arg.none THEN Running(attrs, h)
    ELSE AttrText(AttrText(AttrText(AttrText(Running(attrs, h),
            "field_id", arg.map), "name", arg.map), "type", arg.map),
            "value", arg.map)

\* A slip: the treatment of value is decided by the type the attribute had
\* when the call began.
AttrUpdateOldType(attrs, h, arg) ==
    IF arg.none THEN Running(attrs, h)
    ELSE LET values == arg.map
             st == AttrText(AttrText(AttrText(Running(attrs, h),
                        "field_id", values), "name", values), "type", values)
         IN  IF st.exc # "ok" THEN st
             ELSE IF attrs["type"] = Str("localized")
                  THEN AttrLocalized(st, values)
                  ELSE AttrText(st, "value", values)

\* FieldAttr.update(values)
AttrUpdate(attrs, h, arg) ==
    IF arg.none THEN Running(attrs, h)
    ELSE LET values == arg.map
             st == AttrText(AttrText(AttrText(Running(attrs, h),
                        "field_id", values), "name", values), "type", values)
         IN  IF st.exc # "ok" THEN st
             ELSE IF st.attrs["type"] = Str("localized")
                  THEN AttrLocalized(st, values)
                  ELSE AttrText(st, "value", values)

AttrKeys == {"field_id", "name", "type", "value"}

AttrRaw(k) ==
    CASE k = "field_id" -> {Str("f")}
      [] k = "name" -> {Str("n"), Num(1)}
      [] k = "type" -> {Str("localized"), Str("inputbox")}
      [] k = "value" ->
            {None, Str("t"), Lit(EmptyDict), Lit([l \in {"en"} |-> "x"]),
             Lit([l \in {"it"} |-> "y"]), Lit([l \in {"fr"} |-> "z"])}

RECURSIVE AttrMapsOver(_)
AttrMapsOver(S) ==
    IF S = {} THEN {<< >>}
    ELSE LET k == CHOOSE j \in S : TRUE
         IN  {(k :> v) @@ m : v \in AttrRaw(k), m \in AttrMapsOver(S \ {k})}

\* The arguments of FieldAttr.update: None, the maps that name the four
\* keys, and the maps that miss one of them.
AttrArguments ==
    {NoValues} \cup
    {Values("FieldAttr", m) : m \in UNION {AttrMapsOver(S) :
        S \in {AttrKeys} \cup {AttrKeys \ {k} : k \in AttrKeys}}}

\* FieldAttr.new(store, values)
AttrNewCall(arg) ==
    /\ last = NoCall
    /\ obj = NoObject
    /\ LET st == AttrUpdate(AttrDefaults, WithArg(heap, arg), arg)
           kept == Collect("FieldAttr", st.attrs, st.heap)
       IN  /\ obj' = IF st.exc = "ok"
                     THEN [kind |-> "FieldAttr", attrs |-> kept.attrs]
                     ELSE NoObject
           /\ heap' = IF st.exc = "ok" THEN kept.heap ELSE heap
           /\ ncalls' = IF st.exc = "ok" THEN 1 ELSE 0
           /\ last' = [NoCall EXCEPT !.op = "new", !.arg = arg,
                                     !.kind = "FieldAttr", !.pre = AttrDefaults,
                                     !.preheap = WithArg(heap, arg),
                                     !.exc = st.exc]
    /\ UNCHANGED <<rtips, prev, itips, wbtips, ttl, now>>

\* attr.update(values)
AttrUpdateCall(arg) ==
    /\ last = NoCall
    /\ obj # NoObject
    /\ ncalls < MaxAttrCalls
    /\ LET st == AttrUpdate(obj.attrs, WithArg(heap, arg), arg)
           kept == Collect("FieldAttr", st.attrs, st.heap)
       IN  /\ obj' = [obj EXCEPT !.attrs = kept.attrs]
           /\ heap' = kept.heap
           /\ last' = [NoCall EXCEPT !.op = "update", !.arg = arg,
                                     !.kind = "FieldAttr", !.pre = obj.attrs,
                                     !.preheap = WithArg(heap, arg),
                                     !.exc = st.exc]
    /\ ncalls' = ncalls + 1
    /\ UNCHANGED <<rtips, prev, itips, wbtips, ttl, now>>

\* The call is over; it is now the call before the next one.
AttrReturn ==
    /\ last # NoCall
    /\ last' = NoCall
    /\ prev' = IF obj = NoObject THEN NoCall ELSE last
    /\ UNCHANGED <<rtips, obj, heap, ncalls, itips, wbtips, ttl, now>>

NextFieldAttr ==
    \/ \E arg \in AttrArguments : AttrNewCall(arg)
    \/ \E arg \in AttrArguments : AttrUpdateCall(arg)
    \/ AttrReturn

SpecFieldAttr == Init /\ [][NextFieldAttr]_vars

----------------------------------------------------------------------------
(* InternalTip and WhistleblowerTip *)

\* Times are whole days.
Datetime(d) == [t |-> "datetime", d |-> d]

\* The retention windows the configuration can hold.
Retentions == (0..MaxTtl) \cup {wbtip_timetolive}

TipIds == 1..MaxTips
RowIds == 1..MaxRows

\* uuid4(): an id no row of the table has.
FreshId(ids, used) == CHOOSE i \in ids \ used : \A j \in ids \ used : i <= j

\* InternalTip.whistleblowertip: the row whose internaltip_id is the id of
\* the tip; None when there is none; the lookup refuses to choose among
\* several.
whistleblowertip(t) ==
    LET rows == {r \in DOMAIN wbtips : wbtips[r].internaltip_id = t}
    IN  IF rows = {} THEN [exc |-> "ok", row |-> 0]
        ELSE IF Cardinality(rows) = 1
             THEN [exc |-> "ok", row |-> CHOOSE r \in rows : TRUE]
             ELSE [exc |-> "NotOneError", row |-> 0]

\* A slip: the reference is followed to the row's own id.
is_wb_access_revoked_by_id(t) ==
    [exc |-> "ok", ret |-> Bool(t \notin DOMAIN wbtips)]

is_wb_access_revoked(t) ==
    LET found == whistleblowertip(t)
    IN  IF found.exc = "ok"
        THEN [exc |-> "ok", ret |-> Bool(found.row = 0)]
        ELSE [exc |-> found.exc, ret |-> None]

\* A slip: the window is the one the node was made with.
wb_revoke_access_date_default(t) ==
    Datetime(itips[t].wb_last_access + wbtip_timetolive)

wb_revoke_access_date(t) == Datetime(itips[t].wb_last_access + ttl)

TipCall(op, t) ==
    [NoCall EXCEPT !.op = op, !.tip = t,
                   !.pre = [itips |-> itips, wbtips |-> wbtips, ttl |-> ttl]]

\* InternalTip.new(store, values): wb_last_access is the time of the call.
NewInternalTip ==
    /\ last = NoCall
    /\ Cardinality(DOMAIN itips) < MaxTips
    /\ LET t == FreshId(TipIds, DOMAIN itips)
       IN  /\ itips' = (t :> [wb_last_access |-> now]) @@ itips
           /\ last' = TipCall("new_itip", t)
    /\ UNCHANGED <<rtips, obj, heap, ncalls, prev, wbtips, ttl, now>>

\* db_forge_obj(store, WhistleblowerTip, {'internaltip_id': t})
ForgeWhistleblowerTip(t) ==
    /\ last = NoCall
    /\ t \in DOMAIN itips
    /\ Cardinality(DOMAIN wbtips) < MaxRows
    /\ LET r == FreshId(RowIds, DOMAIN wbtips)
       IN  wbtips' = (r :> [internaltip_id |-> t]) @@ wbtips
    /\ last' = TipCall("forge_wbtip", t)
    /\ UNCHANGED <<rtips, obj, heap, ncalls, prev, itips, ttl, now>>

\* WhistleblowerTip.new(store, values): the kind has no key list, so that
\* update sets nothing and the row references no tip (0 stands for None).
NewWhistleblowerTip ==
    /\ last = NoCall
    /\ Cardinality(DOMAIN wbtips) < MaxRows
    /\ LET r == FreshId(RowIds, DOMAIN wbtips)
       IN  wbtips' = (r :> [internaltip_id |-> 0]) @@ wbtips
    /\ last' = TipCall("new_wbtip", 0)
    /\ UNCHANGED <<rtips, obj, heap, ncalls, prev, itips, ttl, now>>

\* store.remove(row) on a WhistleblowerTip
RemoveWhistleblowerTip(r) ==
    /\ last = NoCall
    /\ r \in DOMAIN wbtips
    /\ wbtips' = [q \in DOMAIN wbtips \ {r} |-> wbtips[q]]
    /\ last' = TipCall("remove_wbtip", wbtips[r].internaltip_id)
    /\ UNCHANGED <<rtips, obj, heap, ncalls, prev, itips, ttl, now>>

\* GLSettings.memory_copy.wbtip_timetolive is set anew.
SetRetention(d) ==
    /\ last = NoCall
    /\ d # ttl
    /\ ttl' = d
    /\ last' = TipCall("set_retention", 0)
    /\ UNCHANGED <<rtips, obj, heap, ncalls, prev, itips, wbtips, now>>

\* A day passes.
Tick ==
    /\ last = NoCall
    /\ now < MaxDay
    /\ now' = now + 1
    /\ UNCHANGED <<rtips, obj, heap, ncalls, last, prev, itips, wbtips, ttl>>

\* tip.is_wb_access_revoked()
IsRevokedCall(t) ==
    /\ last = NoCall
    /\ t \in DOMAIN itips
    /\ LET r == is_wb_access_revoked(t)
       IN  last' = [TipCall("is_wb_access_revoked", t) EXCEPT
                        !.exc = r.exc, !.ret = r.ret]
    /\ UNCHANGED <<rtips, obj, heap, ncalls, prev, itips, wbtips, ttl, now>>

\* tip.wb_revoke_access_date()
RevokeDateCall(t) ==
    /\ last = NoCall
    /\ t \in DOMAIN itips
    /\ last' = [TipCall("wb_revoke_access_date", t) EXCEPT
                    !.ret = wb_revoke_access_date(t)]
    /\ UNCHANGED <<rtips, obj, heap, ncalls, prev, itips, wbtips, ttl, now>>

NextTips ==
    \/ NewInternalTip
    \/ \E t \in TipIds : ForgeWhistleblowerTip(t)
    \/ NewWhistleblowerTip
    \/ \E r \in RowIds : RemoveWhistleblowerTip(r)
    \/ \E d \in Retentions : SetRetention(d)
    \/ Tick
    \/ \E t \in TipIds : IsRevokedCall(t)
    \/ \E t \in TipIds : RevokeDateCall(t)
    \/ Return

SpecTips == Init /\ [][NextTips]_vars

----------------------------------------------------------------------------
(* ReceiverTip rows *)

ReceiverIds == 1..MaxReceivers

\* ReceiverTip.new(store, values): internaltip_id and receiver_id are in no
\* key list, so that the row names neither (0 stands for None).
NewReceiverTip ==
    /\ last = NoCall
    /\ Cardinality(DOMAIN rtips) < MaxRows
    /\ LET q == FreshId(RowIds, DOMAIN rtips)
       IN  rtips' = (q :> [internaltip_id |-> 0, receiver_id |-> 0]) @@ rtips
    /\ last' = [NoCall EXCEPT !.op = "new_rtip"]
    /\ UNCHANGED <<obj, heap, ncalls, prev, itips, wbtips, ttl, now>>

\* db_forge_obj(store, ReceiverTip,
\*              {'internaltip_id': t, 'receiver_id': r})
ForgeReceiverTip(t, r) ==
    /\ last = NoCall
    /\ Cardinality(DOMAIN rtips) < MaxRows
    /\ LET q == FreshId(RowIds, DOMAIN rtips)
       IN  rtips' = (q :> [internaltip_id |-> t, receiver_id |-> r]) @@ rtips
    /\ last' = [NoCall EXCEPT !.op = "forge_rtip", !.tip = t]
    /\ UNCHANGED <<obj, heap, ncalls, prev, itips, wbtips, ttl, now>>

NextReceiverTips ==
    \/ NewReceiverTip
    \/ \E t \in TipIds : \E r \in ReceiverIds : ForgeReceiverTip(t, r)
    \/ Return

SpecReceiverTips == Init /\ [][NextReceiverTips]_vars

----------------------------------------------------------------------------
(* Properties of the generic engine *)

\* What a value is worth: a dict by its entries, anything else as it is.
Worth(v, h) == IF v.t = "dict" THEN [t |-> "dict", d |-> h[v.a]] ELSE v

\* The field held a non-empty mapping.
HoldsMapping(v, h) == v.t = "dict" /\ DOMAIN h[v.a] # {}

UpdateDone == last.op = "update" /\ last.exc = "ok" /\ ~last.arg.none

\* The localized fields the last update was given a mapping for.
GivenMapping(k) ==
    /\ k \in Range(localized_keys(last.kind))
    /\ k \in DOMAIN last.arg.map
    /\ last.arg.map[k].t = "dict"

Before(k) == last.preheap[last.pre[k].a]
Incoming(k) == last.preheap[last.arg.map[k].a]
After(k) == heap[obj.attrs[k].a]

\* C1: when a localized field F holds a non-empty mapping M and update is
\* given a mapping N for F, F afterwards holds M overridden key by key by N:
\* every language of N with N's text, every other language of M with its old
\* text, and no further language.
C1_LocalizedMerge ==
    UpdateDone =>
        \A k \in DOMAIN last.arg.map :
            (GivenMapping(k) /\ HoldsMapping(last.pre[k], last.preheap)) =>
                /\ obj.attrs[k].t = "dict"
                /\ DOMAIN After(k) = DOMAIN Before(k) \cup DOMAIN Incoming(k)
                /\ \A l \in DOMAIN Incoming(k) : After(k)[l] = Incoming(k)[l]
                /\ \A l \in DOMAIN Before(k) \ DOMAIN Incoming(k) :
                        After(k)[l] = Before(k)[l]

\* {en: a} updated with {it: b} gives {en: a, it: b}: on a Context name.
C1_Witness ==
    /\ UpdateDone
    /\ last.kind = "Context"
    /\ GivenMapping("name")
    /\ last.pre["name"].t = "dict"
    /\ Before("name") = [l \in {"en"} |-> "a"]
    /\ Incoming("name") = [l \in {"it"} |-> "b"]
    /\ After("name") = [l \in {"en", "it"} |-> IF l = "en" THEN "a" ELSE "b"]

\* C2: when a localized field F holds no value (None, or an empty mapping)
\* and update is given a mapping N for F, F afterwards holds exactly N.
C2_LocalizedSet ==
    UpdateDone =>
        \A k \in DOMAIN last.arg.map :
            (GivenMapping(k) /\ ~HoldsMapping(last.pre[k], last.preheap)) =>
                /\ obj.attrs[k].t = "dict"
                /\ After(k) = Incoming(k)

\* A field that holds an empty mapping is given {it: b}.
C2_Witness ==
    /\ UpdateDone
    /\ GivenMapping("description")
    /\ last.pre["description"].t = "dict"
    /\ Before("description") = EmptyDict
    /\ Incoming("description") = [l \in {"it"} |-> "b"]
    /\ After("description") = [l \in {"it"} |-> "b"]

\* C3: an update that a validator refuses leaves every field of the entity
\* with the value it had before the call.
C3_AtomicOnValidation ==
    (last.op = "update" /\ last.exc = "ValidationError") =>
        \A k \in Columns(last.kind) :
            Worth(obj.attrs[k], heap) = Worth(last.pre[k], last.preheap)

DictDone == last.op = "dict"

\* C4: dict with no keys returns exactly the public fields, dict with a
\* non-empty set K of public fields returns exactly K, and every key maps to
\* the entity's current value of the field.
C4_DictPublic ==
    (DictDone /\ last.keys \subseteq public_attrs(last.kind)) =>
        /\ last.exc = "ok"
        /\ DOMAIN last.ret =
              (IF last.keys = {} THEN public_attrs(last.kind) ELSE last.keys)
        /\ \A k \in DOMAIN last.ret : last.ret[k] = obj.attrs[k]

\* dict() of a user that has a name and a password column: the password is
\* not in the result.
C4_Witness ==
    /\ DictDone
    /\ last.kind = "User"
    /\ last.keys = {}
    /\ obj.attrs["username"] = Str("a")
    /\ DOMAIN last.ret = {"id", "username", "name", "description"}

\* C5: dict asked for at least one name that is not public fails with a
\* KeyError that names exactly the asked names that are not public, returns
\* no mapping, and leaves every field of the entity as it was.
C5_DictRefuses ==
    (DictDone /\ ~(last.keys \subseteq public_attrs(last.kind))) =>
        /\ last.exc = "KeyError"
        /\ last.named = last.keys \ public_attrs(last.kind)
        /\ last.ret = None
        /\ obj.attrs = last.pre
        /\ heap = last.preheap

\* dict("username", "password") of a user.
C5_Witness ==
    /\ DictDone
    /\ last.kind = "User"
    /\ last.keys = {"username", "password"}
    /\ last.exc = "KeyError"
    /\ last.named = {"password"}

Changed(k) == Worth(obj.attrs[k], heap) # Worth(last.pre[k], last.preheap)

BoolTable ==
    {<<Str("true"), TRUE>>, <<Str("false"), FALSE>>, <<Str("no"), TRUE>>,
     <<Str("False"), TRUE>>, <<Str("0"), TRUE>>, <<Str(""), FALSE>>,
     <<Num(0), FALSE>>, <<Num(1), TRUE>>, <<Bool(TRUE), TRUE>>,
     <<Bool(FALSE), FALSE>>}

\* C10: a boolean field is given true for the text "true", false for the
\* text "false", and otherwise the truth value of the input: true for "no",
\* "False" and "0", false for the empty text and the number 0.
C10_BoolCoercion ==
    (last.op \in {"update", "new"} /\ last.exc = "ok" /\ ~last.arg.none) =>
        \A k \in Range(bool_keys(last.kind)) \cap DOMAIN last.arg.map :
            \A row \in BoolTable :
                last.arg.map[k] = row[1] => obj.attrs[k] = Bool(row[2])

\* A field that holds false is given the text "no".
C10_Witness ==
    /\ last.op = "update"
    /\ last.exc = "ok"
    /\ last.kind = "ReceiverTip"
    /\ "enable_notifications" \in DOMAIN last.arg.map
    /\ last.arg.map["enable_notifications"] = Str("no")
    /\ last.pre["enable_notifications"] = Bool(FALSE)
    /\ obj.attrs["enable_notifications"] = Bool(TRUE)

----------------------------------------------------------------------------
(* Properties of the tips *)

\* The whistleblower-tip rows that reference the tip.
Referencing(rows, t) == {r \in DOMAIN rows : rows[r].internaltip_id = t}

C7_RevokeDate ==
    /\ last.op = "wb_revoke_access_date" =>
          /\ last.ret = Datetime(itips[last.tip].wb_last_access + ttl)
          /\ itips = last.pre.itips
          /\ ttl = last.pre.ttl
    /\ last.op = "set_retention" =>
          /\ itips = last.pre.itips
          /\ ttl # last.pre.ttl
          /\ \A t \in DOMAIN itips :
                wb_revoke_access_date(t) =
                    Datetime(last.pre.itips[t].wb_last_access + ttl)

\* The date is asked of a tip made on day one, after the window was set to
\* one day.
C7_Witness ==
    /\ last.op = "wb_revoke_access_date"
    /\ ttl = 1
    /\ itips[last.tip].wb_last_access = 1
    /\ last.ret = Datetime(2)

----------------------------------------------------------------------------
(* Properties of FieldAttr *)

\* The call was an update (that of the constructor included) that returned
\* and carried this type.
AttrCarriesType(call, type) ==
    /\ call.op \in {"new", "update"}
    /\ call.kind = "FieldAttr"
    /\ call.exc = "ok"
    /\ ~call.arg.none
    /\ call.arg.map["type"] = Str(type)

\* ... and this mapping as its value.
AttrCarries(call, type, d) ==
    /\ AttrCarriesType(call, type)
    /\ Worth(call.arg.map["value"], call.preheap) = [t |-> "dict", d |-> d]

OnlyEn == [l \in {"en"} |-> "x"]
OnlyIt == [l \in {"it"} |-> "y"]
EnAndIt == [l \in {"en", "it"} |-> IF l = "en" THEN "x" ELSE "y"]

\* The mapping the attribute held before the call; the empty one when it
\* held none.
AttrHeld(call) ==
    IF HoldsMapping(call.pre["value"], call.preheap)
    THEN call.preheap[call.pre["value"].a]
    ELSE EmptyDict

\* The call was an update that returned and carried a type other than
\* 'localized'.
AttrCarriesOther(call) ==
    /\ call.op \in {"new", "update"}
    /\ call.kind = "FieldAttr"
    /\ call.exc = "ok"
    /\ ~call.arg.none
    /\ call.arg.map["type"] # Str("localized")

\* Every update of a type other than 'localized' stores the text of its
\* incoming value, so that two of them in a row keep no mapping.
AttrStoresText ==
    /\ AttrCarriesOther(last) =>
          /\ obj.attrs["value"].t = "str"
          /\ obj.attrs["value"] = ToUnicode(last.arg.map["value"], last.preheap)
    /\ (AttrCarriesOther(last) /\ AttrCarriesOther(prev)
        /\ prev.arg.map["type"] = last.arg.map["type"]) =>
          last.pre["value"] = ToUnicode(prev.arg.map["value"], prev.preheap)

\* C8 as it is worded: two successive updates of type 'localized', the
\* first with {en: x} and the second with {it: y}, leave value equal to
\* {en: x, it: y}, whatever value held before them.
C8_AsWorded ==
    /\ (AttrCarries(prev, "localized", OnlyEn)
        /\ AttrCarries(last, "localized", OnlyIt)) =>
            Worth(obj.attrs["value"], heap) = [t |-> "dict", d |-> EnAndIt]
    /\ AttrStoresText

\* C8: two successive updates of type 'localized', the first with {en: x}
\* and the second with {it: y}, leave value equal to the mapping it held
\* before the first of them (the empty mapping when it held none, or a
\* text) overridden by {en: x} and then by {it: y}: {en: x, it: y} when no
\* other language was held.  Two successive updates of one type other than
\* 'localized' each store the text of their incoming value, and no mapping
\* is kept.
C8_FieldAttrSuccessive ==
    /\ (AttrCarries(prev, "localized", OnlyEn)
        /\ AttrCarries(last, "localized", OnlyIt)) =>
            /\ Worth(obj.attrs["value"], heap) =
                  [t |-> "dict",
                   d |-> DictMerge(DictMerge(AttrHeld(prev), OnlyEn), OnlyIt)]
            /\ DOMAIN AttrHeld(prev) \subseteq {"en", "it"} =>
                  Worth(obj.attrs["value"], heap) = [t |-> "dict", d |-> EnAndIt]
    /\ AttrStoresText

\* A new attribute is made with {en: x} and then updated with {it: y}.
C8_Witness ==
    /\ prev.op = "new"
    /\ AttrCarries(prev, "localized", OnlyEn)
    /\ last.op = "update"
    /\ AttrCarries(last, "localized", OnlyIt)
    /\ Worth(obj.attrs["value"], heap) = [t |-> "dict", d |-> EnAndIt]

----------------------------------------------------------------------------
(* Failures of the generic update, and the identifier *)

\* Every field of the entity is worth what it was worth before the call.
Intact ==
    \A k \in Columns(last.kind) :
        Worth(obj.attrs[k], heap) = Worth(last.pre[k], last.preheap)

\* The last update was given, for an integer field, a value int() refuses.
GivenUnparsable ==
    /\ last.op = "update"
    /\ ~last.arg.none
    /\ \E k \in Range(int_keys(last.kind)) \cap DOMAIN last.arg.map :
          /\ last.arg.map[k] # None
          /\ ToInt(last.arg.map[k]).exc # "ok"

\* C11: an update given, for an integer field, a value that is no base-10
\* integer fails, and every field of the entity, the text fields named in
\* the same input map included, then has the value it had before the call.
C11_AtomicOnCoercion ==
    GivenUnparsable => (last.exc # "ok" /\ Intact)

\* The last update was given a name that is no field of the kind.
GivenUnknown ==
    /\ last.op = "update"
    /\ ~last.arg.none
    /\ DOMAIN last.arg.map \ Columns(last.kind) # {}

\* C12: an update whose input map holds a name that is no field of the
\* entity kind fails, and leaves every field as it was.
C12_UnknownFieldRefused ==
    GivenUnknown => (last.exc # "ok" /\ Intact)

\* The field that identifies an entity of the kind: the primary column.
Identifier(kind) ==
    CASE kind = "CustomTexts" -> "lang"
      [] kind = "Counter" -> "key"
      [] OTHER -> "id"

\* C13: no update changes the identifier an entity has: neither a generated
\* id nor a natural key (Counter.key, CustomTexts.lang).
C13_IdentifierImmutable ==
    (last.op = "update" /\ last.pre[Identifier(last.kind)] # None) =>
        obj.attrs[Identifier(last.kind)] = last.pre[Identifier(last.kind)]

----------------------------------------------------------------------------
(* Uniqueness of the rows *)

\* C14: at most one whistleblower-tip row references any internal-tip.
C14_AtMostOneWbTip ==
    \A t \in DOMAIN itips : Cardinality(Referencing(wbtips, t)) <= 1

\* C15: no two receiver-tip rows carry the same pair of internal-tip and
\* receiver.
C15_UniquePairing ==
    \A q1, q2 \in DOMAIN rtips :
        (q1 # q2 /\ rtips[q1].internaltip_id # 0 /\ rtips[q1].receiver_id # 0) =>
            rtips[q1] # rtips[q2]

----------------------------------------------------------------------------
(* More properties of FieldAttr *)

\* The call was an update of a FieldAttr (that of the constructor
\* included) that was given a map and returned.
AttrDone(call) ==
    /\ call.op \in {"new", "update"}
    /\ call.kind = "FieldAttr"
    /\ call.exc = "ok"
    /\ ~call.arg.none

\* C16: after an update of a FieldAttr, field_id, name and type hold the
\* text of their incoming values.  When the incoming type is 'localized',
\* value holds the mapping it held before overridden by the incoming one,
\* or the incoming value itself when it held no mapping (a text, None or an
\* empty mapping); for every other incoming type, whatever the type was
\* before, value holds the text of the incoming value.
C16_ValueFollowsNewType ==
    AttrDone(last) =>
        /\ \A k \in {"field_id", "name", "type"} :
              /\ obj.attrs[k].t = "str"
              /\ obj.attrs[k] = ToUnicode(last.arg.map[k], last.preheap)
        /\ IF last.arg.map["type"] = Str("localized")
           THEN IF HoldsMapping(last.pre["value"], last.preheap)
                THEN Worth(obj.attrs["value"], heap) =
                        [t |-> "dict",
                         d |-> DictMerge(AttrHeld(last),
                                         last.preheap[last.arg.map["value"].a])]
                ELSE Worth(obj.attrs["value"], heap) =
                        Worth(last.arg.map["value"], last.preheap)
           ELSE obj.attrs["value"] =
                    ToUnicode(last.arg.map["value"], last.preheap)

\* An attribute that held a text was made 'localized' and given a mapping,
\* which it stored outright; it is then made 'inputbox', and the mapping is
\* replaced by a text.
C16_Witness ==
    /\ AttrDone(prev)
    /\ prev.pre["type"] = Str("inputbox")
    /\ prev.pre["value"].t = "str"
    /\ prev.arg.map["type"] = Str("localized")
    /\ AttrDone(last)
    /\ last.op = "update"
    /\ HoldsMapping(last.pre["value"], last.preheap)
    /\ Worth(last.pre["value"], last.preheap) =
          Worth(prev.arg.map["value"], prev.preheap)
    /\ last.arg.map["type"] = Str("inputbox")
    /\ last.arg.map["name"] = Num(1)
    /\ obj.attrs["value"].t = "str"
    /\ obj.attrs["name"] = Str("1")

\* C19: an update of a FieldAttr whose input map lacks one of the four
\* keys fails, and field_id, name, type and value are then worth what they
\* were worth before the call.
C19_AtomicOnMissingKey ==
    (last.op = "update" /\ last.kind = "FieldAttr" /\ ~last.arg.none
     /\ AttrKeys \ DOMAIN last.arg.map # {}) =>
        /\ last.exc # "ok"
        /\ \A k \in AttrKeys :
              Worth(obj.attrs[k], heap) = Worth(last.pre[k], last.preheap)

----------------------------------------------------------------------------
(* Mappings held by reference *)

\* C18: when an update names one localized field that holds a non-empty
\* mapping, and the validator of the field refuses the merged mapping, the
\* field holds after the failure exactly the mapping it held before.
C18_MergeUndoneOnRefusal ==
    (last.op = "update" /\ ~last.arg.none /\ last.exc = "ValidationError") =>
        \A k \in DOMAIN last.arg.map :
            (DOMAIN last.arg.map = {k} /\ GivenMapping(k)
             /\ HoldsMapping(last.pre[k], last.preheap)) =>
                Worth(obj.attrs[k], heap) = Worth(last.pre[k], last.preheap)

\* C17: an update of a localized field changes no other localized field of
\* the entity: every localized field the input map does not name is worth
\* after the update what it was worth before, also when it was given, in
\* an earlier call, the mapping that another field was given.
C17_NoSharing ==
    (last.op = "update" /\ ~last.arg.none) =>
        \A k \in Range(localized_keys(last.kind)) \ DOMAIN last.arg.map :
            Worth(obj.attrs[k], heap) = Worth(last.pre[k], last.preheap)

====
